---- MODULE Spec2Model ----
(***************************************************************************)
(* Model of the SheetInfo aggregate of package smartsheet: the column      *)
(* directory, the two pending-row queues, and the Load / AddRow /          *)
(* UpdateRow / UploadNewRows / UploadUpdateRows operations together with   *)
(* the transport (DoRequest) and SetParentId they call, and the Store /    *)
(* Restore / MatchSheet operations on a stored copy of the aggregate.      *)
(*                                                                         *)
(* Every handler is one action.  The network calls a handler makes are     *)
(* recorded, in the order they are issued, in last.calls; the outcome of   *)
(* the k-th call of a handler is the k-th element of the sequence `net'    *)
(* the action draws.                                                       *)
(***************************************************************************)
EXTENDS Integers, Sequences, FiniteSets, TLC

VARIABLES she, last, attempts, panicked, base, file

vars == <<she, last, attempts, panicked, base, file>>

----------------------------------------------------------------------------
(* Bounds of the model *)

\* longest new-row queue in Spec and SpecNew
MaxNew == 2
\* longest update-row queue in Spec
MaxUpd == 1
\* longest new-row queue in SpecLink
MaxLink == 5

\* most rows queued at a time, both queues together, in SpecPlace
MaxBatch == 2

----------------------------------------------------------------------------
(* Values: Cell.Value is interface{}; a value is tagged with its dynamic type *)

StrVal(s) == [kind |-> "string", v |-> s]
NilVal == [kind |-> "nil", v |-> ""]
NumVal == [kind |-> "number", v |-> "7"]

\* Cell{ColName, ColumnId, Value}
MkCell(name, val) == [ColName |-> name, ColumnId |-> 0, Value |-> val]

\* Row{Id, Cells, Locked}; Locked is *bool: "nil", "true" or "false"
MkRow(id, cells, locked) == [Id |-> id, Cells |-> cells, Locked |-> locked]

\* Column{Id, Index, Title, Type, Primary}
MkColumn(id, index, title, type, primary) ==
    [Id |-> id, Index |-> index, Title |-> title, Type |-> type, Primary |-> primary]

\* Sheet{Id, Name, Workspace{Id, Name}, Columns, Rows}
SheetA ==
    [Id |-> 1, Name |-> "A", Workspace |-> [Id |-> 9, Name |-> "W"],
     Columns |-> << MkColumn(11, 0, "Address", "TEXT_NUMBER", TRUE),
                    MkColumn(12, 1, "Level", "TEXT_NUMBER", FALSE) >>,
     Rows |-> << [Id |-> 101, Locked |-> "nil",
                  Cells |-> << [ColName |-> "", ColumnId |-> 11, Value |-> StrVal("a")] >>] >>]

SheetB ==
    [Id |-> 2, Name |-> "B", Workspace |-> [Id |-> 9, Name |-> "W"],
     Columns |-> << MkColumn(21, 0, "Address", "TEXT_NUMBER", TRUE),
                    MkColumn(22, 1, "Status", "PICKLIST", FALSE) >>,
     Rows |-> << >>]

\* the sheets the provider holds, by sheet id
ProviderSheets == [id \in {1, 2} |-> IF id = 1 THEN SheetA ELSE SheetB]

\* RowLocation; a *RowLocation is the record plus the flag nil
MkLocation(parentId, siblingId, toTop, toBottom, above, indent, outdent) ==
    [nil |-> FALSE, ParentId |-> parentId, SiblingId |-> siblingId, ToTop |-> toTop,
     ToBottom |-> toBottom, AboveSibling |-> above, Indent |-> indent, Outdent |-> outdent]

NilLocation == [MkLocation(0, 0, FALSE, FALSE, FALSE, 0, 0) EXCEPT !.nil = TRUE]
ZeroLocation == MkLocation(0, 0, FALSE, FALSE, FALSE, 0, 0)

\* GetSheetOptions; a *GetSheetOptions is the record plus the flag nil
MkOptions(rowIds, columnNames) ==
    [nil |-> FALSE, RowIds |-> rowIds, ColumnNames |-> columnNames, ColumnIds |-> << >>]

NilOptions == [MkOptions(<< >>, << >>) EXCEPT !.nil = TRUE]
NoRows == MkOptions(<< 0 >>, << >>)

\* what the network does with one call: answers 200 with a well-formed body,
\* answers 200 with a body that is not the expected JSON, answers another
\* status, or fails in transport
Outcomes == {"ok", "badjson", "status", "neterr"}

----------------------------------------------------------------------------
(* The empty aggregate: new(SheetInfo) *)

EmptyMap == [k \in {} |-> 0]

NewSheetInfo ==
    [SheetId |-> 0, SheetName |-> "", WorkspaceId |-> 0, WorkspaceName |-> "",
     ColumnsById |-> EmptyMap, ColumnsByName |-> EmptyMap, ColumnsByIndex |-> EmptyMap,
     Rows |-> << >>, NewRows |-> << >>, UpdateRows |-> << >>]

\* *AddUpdtRowsResponse
NilResp == [nil |-> TRUE, Message |-> "", ResultCode |-> 0, Result |-> << >>]

----------------------------------------------------------------------------
(* Transport *)

\* http.StatusOK
StatusOK == 200

\* the status of the response: 200 with a body that decodes ("ok") or does
\* not ("badjson"), 201 ("created"), 204 ("nocontent"), 404 ("status"); no
\* response at all when client.Do fails in transport ("neterr")
StatusCode(outcome) ==
    CASE outcome \in {"ok", "badjson"} -> 200
      [] outcome = "created" -> 201
      [] outcome = "nocontent" -> 204
      [] outcome = "status" -> 404
      [] OTHER -> 0

\* variant: every status from 200 to 299 is taken as success
DoRequestAny2xx(outcome) ==
    [panic |-> outcome = "neterr",
     err   |-> outcome # "neterr" /\ (StatusCode(outcome) < 200 \/ StatusCode(outcome) > 299),
     slept |-> outcome # "neterr" /\ StatusCode(outcome) >= 200 /\ StatusCode(outcome) <= 299]

\* DoRequest: client.Do fails in transport with a nil response, which the
\* logging of the response header dereferences (a run-time panic); a status
\* other than 200 is returned as an error; otherwise DoRequest sleeps for
\* RequestDelay (slept) and the response is returned.
DoRequest(outcome) ==
    [panic |-> outcome = "neterr",
     err   |-> outcome # "neterr" /\ StatusCode(outcome) # StatusOK,
     slept |-> outcome # "neterr" /\ StatusCode(outcome) = StatusOK]

\* The provider answers a call addressed to a sheet it does not hold with a
\* status other than 200.
Answer(sheetId, outcome) ==
    IF outcome \in {"ok", "badjson"} /\ sheetId \notin DOMAIN ProviderSheets
    THEN "status" ELSE outcome

\* one network call as the provider sees it, and whether DoRequest slept
\* for RequestDelay before it returned
Call(kind, sheetId, items, outcome) ==
    [kind |-> kind, sheetId |-> sheetId, items |-> items, outcome |-> Answer(sheetId, outcome),
     slept |-> DoRequest(Answer(sheetId, outcome)).slept]

----------------------------------------------------------------------------
(* JSON encoding of cells and rows *)

\* Cell's JSON form: ColName has the tag json:"-"
EncodeCell(c) == [columnId |-> c.ColumnId, value |-> c.Value]
DecodeCell(j) == [ColName |-> "", ColumnId |-> j.columnId, Value |-> j.value]

EncodeCells(cells) == [i \in 1..Len(cells) |-> EncodeCell(cells[i])]
DecodeCells(js) == [i \in 1..Len(js) |-> DecodeCell(js[i])]

Digit(d) == CASE d = 0 -> "0" [] d = 1 -> "1" [] d = 2 -> "2" [] d = 3 -> "3"
              [] d = 4 -> "4" [] d = 5 -> "5" [] d = 6 -> "6" [] d = 7 -> "7"
              [] d = 8 -> "8" [] OTHER -> "9"

\* strconv.FormatInt(n, 10) for n >= 0
RECURSIVE FormatInt(_)
FormatInt(n) == IF n < 10 THEN Digit(n) ELSE FormatInt(n \div 10) \o Digit(n % 10)

\* the provider reads a decimal string back (row ids of the model are below 1000)
ParseInt(str) == CHOOSE n \in 0..999 : FormatInt(n) = str

----------------------------------------------------------------------------
(* Placement *)

LocationKeys == {"toTop", "toBottom", "parentId", "siblingId", "above", "indent", "outdent"}

\* variant: toBottom is dropped when toTop is set as well
CreateLocationMapExclusive(location) ==
    LET keys == {k \in {"toTop", "toBottom"} :
                    \/ k = "toTop" /\ location.ToTop
                    \/ k = "toBottom" /\ location.ToBottom /\ ~location.ToTop}
    IN [k \in keys |-> TRUE]

\* CreateLocationMap: a key is present only if its field is true / non-zero
CreateLocationMap(location) ==
    LET active(k) ==
            CASE k = "toTop"     -> location.ToTop
              [] k = "toBottom"  -> location.ToBottom
              [] k = "parentId"  -> location.ParentId # 0
              [] k = "siblingId" -> location.SiblingId # 0
              [] k = "above"     -> location.AboveSibling
              [] k = "indent"    -> location.Indent # 0
              [] OTHER           -> location.Outdent # 0
        value(k) ==
            CASE k = "parentId"  -> location.ParentId
              [] k = "siblingId" -> location.SiblingId
              [] k = "indent"    -> 1
              [] k = "outdent"   -> 1
              [] OTHER           -> TRUE
    IN [k \in {x \in LocationKeys : active(x)} |-> value(k)]

\* for k, v := range m2 { m1[k] = v }
MapMerge(m1, m2) ==
    [k \in (DOMAIN m1) \cup (DOMAIN m2) |-> IF k \in DOMAIN m2 THEN m2[k] ELSE m1[k]]

\* variant: bottom of the sheet also when the directive sets no field
NewRowsLocMapDefaulting(location) ==
    IF location.nil \/ DOMAIN CreateLocationMap(location) = {}
    THEN ("toBottom" :> TRUE) ELSE CreateLocationMap(location)

\* locMap of UploadNewRows
NewRowsLocMap(location) ==
    IF location.nil THEN ("toBottom" :> TRUE) ELSE CreateLocationMap(location)

\* variant: bottom of the sheet when no location is given, as for new rows
UpdateRowsLocMapDefaulting(location) ==
    IF location.nil THEN ("toBottom" :> TRUE) ELSE CreateLocationMap(location)

\* locMap of UploadUpdateRows: a nil map when no location is given
UpdateRowsLocMap(location) ==
    IF location.nil THEN EmptyMap ELSE CreateLocationMap(location)

\* one item of the create batch
NewRowItem(newRow, locMap) ==
    LET cells == ("cells" :> EncodeCells(newRow.Cells))
        locked == IF newRow.Locked # "nil"
                  THEN MapMerge(cells, ("locked" :> (newRow.Locked = "true")))
                  ELSE cells
    IN MapMerge(locked, locMap)

\* variant: cells are sent even when the queued row has none
UpdateRowItemAlwaysCells(updateRow, locMap) ==
    LET cells == MapMerge(("id" :> FormatInt(updateRow.Id)),
                          ("cells" :> EncodeCells(updateRow.Cells)))
        locked == IF updateRow.Locked # "nil"
                  THEN MapMerge(cells, ("locked" :> (updateRow.Locked = "true")))
                  ELSE cells
    IN MapMerge(locked, locMap)

\* one item of the update batch
UpdateRowItem(updateRow, locMap) ==
    LET id == ("id" :> FormatInt(updateRow.Id))
        cells == IF Len(updateRow.Cells) > 0
                 THEN MapMerge(id, ("cells" :> EncodeCells(updateRow.Cells)))
                 ELSE id
        locked == IF updateRow.Locked # "nil"
                  THEN MapMerge(cells, ("locked" :> (updateRow.Locked = "true")))
                  ELSE cells
    IN MapMerge(locked, locMap)

\* variant: the batch in reverse queue order
NewRowsBatchReversed(rows, locMap) ==
    [i \in 1..Len(rows) |-> NewRowItem(rows[Len(rows) + 1 - i], locMap)]

\* reqData of UploadNewRows: one item per queued row, in queue order
NewRowsBatch(rows, locMap) == [i \in 1..Len(rows) |-> NewRowItem(rows[i], locMap)]

\* reqData of UploadUpdateRows: one item per queued row, in queue order
UpdateRowsBatch(rows, locMap) == [i \in 1..Len(rows) |-> UpdateRowItem(rows[i], locMap)]

----------------------------------------------------------------------------
(* The provider's answers to the row calls *)

\* the id the provider gives the i-th row of a create batch
NewRowId(i) == 100 + i

ItemCells(item) == IF "cells" \in DOMAIN item THEN DecodeCells(item["cells"]) ELSE << >>
ItemLocked(item) ==
    IF "locked" \in DOMAIN item THEN (IF item["locked"] THEN "true" ELSE "false") ELSE "nil"

\* Body of the answer to a create call: the rows in submission order with
\* their new ids; "result" is one row object when one row was submitted and
\* an array otherwise.
CreateBody(items, outcome) ==
    IF outcome = "badjson" THEN [shape |-> "garbage", rows |-> << >>]
    ELSE [shape |-> IF Len(items) = 1 THEN "object" ELSE "array",
          rows  |-> [i \in 1..Len(items) |->
                        MkRow(NewRowId(i), ItemCells(items[i]), ItemLocked(items[i]))]]

\* Body of the answer to an update call: "result" is always an array.
UpdateBody(items, outcome) ==
    IF outcome = "badjson" THEN [shape |-> "garbage", rows |-> << >>]
    ELSE [shape |-> "array",
          rows  |-> [i \in 1..Len(items) |->
                        MkRow(ParseInt(items[i]["id"]), ItemCells(items[i]), ItemLocked(items[i]))]]

\* json.Unmarshal into AddUpdtRowsResponse (Result []Row)
UnmarshalRows(body) ==
    IF body.shape = "array"
    THEN [err |-> FALSE, resp |-> [nil |-> FALSE, Message |-> "SUCCESS", ResultCode |-> 0,
                                   Result |-> body.rows]]
    ELSE [err |-> TRUE, resp |-> NilResp]

\* json.Unmarshal into AddUpdtRowResponse (Result Row)
UnmarshalRow(body) ==
    IF body.shape = "object"
    THEN [err |-> FALSE, Message |-> "SUCCESS", ResultCode |-> 0, Result |-> body.rows[1]]
    ELSE [err |-> TRUE, Message |-> "", ResultCode |-> 0, Result |-> MkRow(0, << >>, "nil")]

----------------------------------------------------------------------------
(* Enqueue: AddRow, UpdateRow *)

\* The loop of AddRow / UpdateRow over the cells: Cells[i].ColumnId is set
\* from the by-title index, cell by cell, until a title is not found.
RECURSIVE ResolveCells(_, _, _)
ResolveCells(byName, cells, i) ==
    IF i > Len(cells) THEN [found |-> TRUE, cells |-> cells]
    ELSE IF cells[i].ColName \notin DOMAIN byName THEN [found |-> FALSE, cells |-> cells]
    ELSE ResolveCells(byName,
                      [cells EXCEPT ![i].ColumnId = byName[cells[i].ColName].Id], i + 1)

\* variant: the row is appended as far as it was translated
AddRowRunPartial(s, newRow) ==
    LET r == ResolveCells(s.ColumnsByName, newRow.Cells, 1)
    IN [she |-> [s EXCEPT !.NewRows = Append(@, [newRow EXCEPT !.Cells = r.cells])],
        err |-> ~r.found]

\* SheetInfo.AddRow: result is the aggregate afterwards and whether an error is returned
AddRowRun(s, newRow) ==
    LET r == ResolveCells(s.ColumnsByName, newRow.Cells, 1)
    IN IF ~r.found THEN [she |-> s, err |-> TRUE]
       ELSE [she |-> [s EXCEPT !.NewRows = Append(@, [newRow EXCEPT !.Cells = r.cells])],
             err |-> FALSE]

\* variant: the row is appended to the new-row queue
UpdateRowRunIntoNewRows(s, updtRow) ==
    LET r == ResolveCells(s.ColumnsByName, updtRow.Cells, 1)
    IN IF ~r.found THEN [she |-> s, err |-> TRUE]
       ELSE [she |-> [s EXCEPT !.NewRows = Append(@, [updtRow EXCEPT !.Cells = r.cells])],
             err |-> FALSE]

\* SheetInfo.UpdateRow
UpdateRowRun(s, updtRow) ==
    LET r == ResolveCells(s.ColumnsByName, updtRow.Cells, 1)
    IN IF ~r.found THEN [she |-> s, err |-> TRUE]
       ELSE [she |-> [s EXCEPT !.UpdateRows = Append(@, [updtRow EXCEPT !.Cells = r.cells])],
             err |-> FALSE]

----------------------------------------------------------------------------
(* SetParentId and the parent-linking pass *)

\* the outcome of the next network call of a handler that has issued `calls'
NextOutcome(net, calls) == net[Len(calls) + 1]

\* SetParentId(sheet, parentId, childIds): one update call whose items are
\* {id, parentId}, one per child.  Result: the calls issued so far, whether an
\* error is returned, whether the call panicked.
SetParentId(s, parentId, childIds, net, calls) ==
    IF s.SheetId = 0 THEN [calls |-> calls, err |-> TRUE, panic |-> FALSE]
    ELSE IF Len(childIds) = 0 THEN [calls |-> calls, err |-> FALSE, panic |-> FALSE]
    ELSE LET reqData == [i \in 1..Len(childIds) |-> [id |-> childIds[i], parentId |-> parentId]]
             call == Call("setparent", s.SheetId, reqData, NextOutcome(net, calls))
             r == DoRequest(call.outcome)
         IN [calls |-> Append(calls, call), err |-> r.err, panic |-> r.panic]

\* the index of the first cell of the row in the given column, 0 if none
FirstCell(cells, columnId) ==
    IF \E i \in 1..Len(cells) : cells[i].ColumnId = columnId
    THEN CHOOSE i \in 1..Len(cells) :
            /\ cells[i].ColumnId = columnId
            /\ \A j \in 1..(i - 1) : cells[j].ColumnId # columnId
    ELSE 0

\* variant: an unknown level column reads as no level, without error
GetRowLevelLenient(s, row, rowLevelField) ==
    IF rowLevelField \notin DOMAIN s.ColumnsByName
    THEN [level |-> "", err |-> FALSE, panic |-> FALSE]
    ELSE LET i == FirstCell(row.Cells, s.ColumnsByName[rowLevelField].Id)
         IN IF i = 0 THEN [level |-> "", err |-> FALSE, panic |-> FALSE]
            ELSE IF row.Cells[i].Value.kind # "string"
                 THEN [level |-> "", err |-> FALSE, panic |-> TRUE]
                 ELSE [level |-> row.Cells[i].Value.v, err |-> FALSE, panic |-> FALSE]

\* SheetInfo.GetRowLevel: the type assertion cell.Value.(string) panics when
\* the value is not a string
GetRowLevel(s, row, rowLevelField) ==
    IF rowLevelField \notin DOMAIN s.ColumnsByName
    THEN [level |-> "", err |-> TRUE, panic |-> FALSE]
    ELSE LET i == FirstCell(row.Cells, s.ColumnsByName[rowLevelField].Id)
         IN IF i = 0 THEN [level |-> "", err |-> FALSE, panic |-> FALSE]
            ELSE IF row.Cells[i].Value.kind # "string"
                 THEN [level |-> "", err |-> FALSE, panic |-> TRUE]
                 ELSE [level |-> row.Cells[i].Value.v, err |-> FALSE, panic |-> FALSE]

\* variant: the test without the check that a parent has been seen
IsChildAnyParent(parentId, rowLevel) == rowLevel = "1"

\* the test that makes a created row a child of the current parent
IsChild(parentId, rowLevel) == parentId # 0 /\ rowLevel = "1"

\* variant: the children of the last parent are not flushed
LinkFinishNoFlush(s, parentId, childIds, net, calls, outerErr) ==
    [calls |-> calls, err |-> outerErr, panic |-> FALSE]

\* After the loop over the created rows: the remaining children are flushed.
\* outerErr is the variable err of UploadNewRows itself.
LinkFinish(s, parentId, childIds, net, calls, outerErr) ==
    IF Len(childIds) > 0
    THEN SetParentId(s, parentId, childIds, net, calls)
    ELSE [calls |-> calls, err |-> outerErr, panic |-> FALSE]

\* The loop over the created rows, from row i on.  The loop body declares its
\* own err (rowLevel, err := ...), so the error of a flush inside the loop is
\* held by that variable, and the break leaves the err of UploadNewRows, nil
\* after the decode, as it is.
RECURSIVE LinkRows(_, _, _, _, _, _, _, _)
LinkRows(s, rows, rowLevelField, net, i, parentId, childIds, calls) ==
    IF i > Len(rows) THEN LinkFinish(s, parentId, childIds, net, calls, FALSE)
    ELSE
      LET row == rows[i]
          lvl == GetRowLevel(s, row, rowLevelField)
      IN
      IF lvl.panic THEN [calls |-> calls, err |-> FALSE, panic |-> TRUE]
      ELSE IF lvl.err THEN [calls |-> calls, err |-> TRUE, panic |-> FALSE]
      ELSE IF lvl.level = "0" THEN
          IF Len(childIds) > 0 THEN
              LET f == SetParentId(s, parentId, childIds, net, calls)
              IN IF f.panic THEN f
                 ELSE IF f.err THEN LinkFinish(s, parentId, << >>, net, f.calls, FALSE)
                 ELSE LinkRows(s, rows, rowLevelField, net, i + 1, row.Id, << >>, f.calls)
          ELSE LinkRows(s, rows, rowLevelField, net, i + 1, row.Id, childIds, calls)
      ELSE IF IsChild(parentId, lvl.level) THEN
          LinkRows(s, rows, rowLevelField, net, i + 1, parentId, Append(childIds, row.Id), calls)
      ELSE LinkRows(s, rows, rowLevelField, net, i + 1, parentId, childIds, calls)

----------------------------------------------------------------------------
(* Upload *)

\* what a handler leaves behind: the aggregate, the returned response and
\* error, the calls it issued, whether it panicked
Ret(s, resp, err, calls, panic) ==
    [she |-> s, resp |-> resp, err |-> err, calls |-> calls, panic |-> panic]

\* the new-row queue is set to nil
ClearNewRows(s) == [s EXCEPT !.NewRows = << >>]

\* the update-row queue is set to nil
ClearUpdateRows(s) == [s EXCEPT !.UpdateRows = << >>]

\* variant: the answer is always decoded as a list
NeverSingleRowResponse(s) == FALSE

\* UploadNewRows decodes the answer as one row object when one row is queued
IsSingleRowResponse(s) == Len(s.NewRows) = 1

\* SheetInfo.UploadNewRows(location, rowLevelField...)
UploadNewRowsRun(s, location, rowLevelField, net) ==
    IF Len(s.NewRows) = 0 THEN Ret(s, NilResp, FALSE, << >>, FALSE)
    ELSE
      LET locMap == NewRowsLocMap(location)
          reqData == NewRowsBatch(s.NewRows, locMap)
          call == Call("create", s.SheetId, reqData, NextOutcome(net, << >>))
          calls == << call >>
          r == DoRequest(call.outcome)
          respJSON == CreateBody(reqData, call.outcome)
      IN
      IF r.panic THEN Ret(s, NilResp, FALSE, calls, TRUE)
      ELSE IF r.err THEN Ret(s, NilResp, TRUE, calls, FALSE)
      ELSE IF IsSingleRowResponse(s) THEN
          LET apiResp1 == UnmarshalRow(respJSON)
          IN IF apiResp1.err THEN Ret(s, NilResp, TRUE, calls, FALSE)
             ELSE Ret(ClearNewRows(s),
                      [nil |-> FALSE, Message |-> apiResp1.Message,
                       ResultCode |-> apiResp1.ResultCode, Result |-> << apiResp1.Result >>],
                      FALSE, calls, FALSE)
      ELSE
          LET d == UnmarshalRows(respJSON)
          IN IF d.err THEN Ret(s, NilResp, TRUE, calls, FALSE)
             \* from here on the deferred function clears the queue, also on a panic
             ELSE IF Len(rowLevelField) = 0 THEN Ret(ClearNewRows(s), d.resp, FALSE, calls, FALSE)
             ELSE LET w == LinkRows(s, d.resp.Result, rowLevelField[1], net, 1, 0, << >>, calls)
                  IN Ret(ClearNewRows(s), IF w.panic THEN NilResp ELSE d.resp,
                         w.err, w.calls, w.panic)

\* variant: an empty update-row queue returns before any call
UploadUpdateRowsRunSkipEmpty(s, location, net) ==
    LET locMap == UpdateRowsLocMap(location)
        reqData == UpdateRowsBatch(s.UpdateRows, locMap)
        call == Call("update", s.SheetId, reqData, NextOutcome(net, << >>))
        calls == << call >>
        r == DoRequest(call.outcome)
        d == UnmarshalRows(UpdateBody(reqData, call.outcome))
    IN
    IF Len(s.UpdateRows) = 0 THEN Ret(s, NilResp, FALSE, << >>, FALSE)
    ELSE IF r.panic THEN Ret(s, NilResp, FALSE, calls, TRUE)
    ELSE IF r.err THEN Ret(s, NilResp, TRUE, calls, FALSE)
    ELSE IF d.err THEN Ret(s, NilResp, TRUE, calls, FALSE)
    ELSE Ret(ClearUpdateRows(s), d.resp, FALSE, calls, FALSE)

\* SheetInfo.UploadUpdateRows(location)
UploadUpdateRowsRun(s, location, net) ==
    LET locMap == UpdateRowsLocMap(location)
        reqData == UpdateRowsBatch(s.UpdateRows, locMap)
        call == Call("update", s.SheetId, reqData, NextOutcome(net, << >>))
        calls == << call >>
        r == DoRequest(call.outcome)
        d == UnmarshalRows(UpdateBody(reqData, call.outcome))
    IN
    IF r.panic THEN Ret(s, NilResp, FALSE, calls, TRUE)
    ELSE IF r.err THEN Ret(s, NilResp, TRUE, calls, FALSE)
    ELSE IF d.err THEN Ret(s, NilResp, TRUE, calls, FALSE)
    ELSE Ret(ClearUpdateRows(s), d.resp, FALSE, calls, FALSE)

----------------------------------------------------------------------------
(* Load *)

\* variant: a name that is not in the by-title index is passed on as id 0
ColumnIdsOfLenient(byName, names) ==
    [found |-> TRUE,
     ids   |-> [i \in 1..Len(names) |->
                   IF names[i] \in DOMAIN byName THEN byName[names[i]].Id ELSE 0]]

\* the ids of the requested column names, in order; found is false when a
\* name is not in the by-title index
ColumnIdsOf(byName, names) ==
    [found |-> \A i \in 1..Len(names) : names[i] \in DOMAIN byName,
     ids   |-> [i \in 1..Len(names) |->
                   IF names[i] \in DOMAIN byName THEN byName[names[i]].Id ELSE 0]]

SeqFilter(seq, Keep(_)) ==
    LET idx == {i \in 1..Len(seq) : Keep(seq[i])}
        nth(k) == CHOOSE i \in idx : Cardinality({j \in idx : j < i}) = k - 1
    IN [k \in 1..Cardinality(idx) |-> seq[nth(k)]]

SeqRange(seq) == {seq[i] : i \in 1..Len(seq)}

\* Body of the answer to GET /sheets/{id}: the sheet, with only the requested
\* rows and columns when row ids or column ids are given; no sheet when the
\* call is not answered with success.
SheetBody(sheetId, rowIds, columnIds, outcome) ==
    IF outcome # "ok" THEN [shape |-> "garbage", sheet |-> SheetA]
    ELSE
      LET sh == ProviderSheets[sheetId]
          keepCol(c) == Len(columnIds) = 0 \/ c.Id \in SeqRange(columnIds)
          keepCell(c) == Len(columnIds) = 0 \/ c.ColumnId \in SeqRange(columnIds)
          keepRow(r) == Len(rowIds) = 0 \/ r.Id \in SeqRange(rowIds)
          rows == SeqFilter(sh.Rows, keepRow)
      IN [shape |-> "object",
          sheet |-> [sh EXCEPT !.Columns = SeqFilter(sh.Columns, keepCol),
                               !.Rows = [i \in 1..Len(rows) |->
                                    [rows[i] EXCEPT !.Cells = SeqFilter(@, keepCell)]]]]

\* GetSheet(sheetId, options)
GetSheet(sheetId, options, net) ==
    LET call == Call("getsheet", sheetId,
                     [rowIds |-> options.RowIds, columnIds |-> options.ColumnIds],
                     NextOutcome(net, << >>))
        r == DoRequest(call.outcome)
        body == SheetBody(sheetId, options.RowIds, options.ColumnIds, call.outcome)
    IN [calls |-> << call >>, panic |-> r.panic,
        err |-> r.err \/ (~r.panic /\ body.shape # "object"), sheet |-> body.sheet]

\* for _, column := range columns { index[Key(column)] = column }
IndexBy(columns, Key(_)) ==
    [k \in {Key(columns[i]) : i \in 1..Len(columns)} |->
        columns[CHOOSE i \in 1..Len(columns) :
                    /\ Key(columns[i]) = k
                    /\ \A j \in (i + 1)..Len(columns) : Key(columns[j]) # k]]

\* variant: the fetched columns are added to the indices already held
LoadRunKeepColumns(s, sheetId, options, net) ==
    LET g == GetSheet(sheetId, MkOptions(<< >>, << >>), net)
        ById(c) == c.Id
        ByName(c) == c.Title
        ByIndex(c) == c.Index
    IN IF g.panic THEN Ret(s, NilResp, FALSE, g.calls, TRUE)
       ELSE IF g.err THEN Ret(s, NilResp, TRUE, g.calls, FALSE)
       ELSE Ret([s EXCEPT !.SheetId = g.sheet.Id, !.SheetName = g.sheet.Name,
                          !.WorkspaceId = g.sheet.Workspace.Id,
                          !.WorkspaceName = g.sheet.Workspace.Name,
                          !.ColumnsById = MapMerge(@, IndexBy(g.sheet.Columns, ById)),
                          !.ColumnsByName = MapMerge(@, IndexBy(g.sheet.Columns, ByName)),
                          !.ColumnsByIndex = MapMerge(@, IndexBy(g.sheet.Columns, ByIndex)),
                          !.Rows = g.sheet.Rows],
                NilResp, FALSE, g.calls, FALSE)

\* variant: a successful fetch empties both queues
LoadRunClearQueues(s, sheetId, options, net) ==
    LET g == GetSheet(sheetId, MkOptions(<< >>, << >>), net)
        ById(c) == c.Id
        ByName(c) == c.Title
        ByIndex(c) == c.Index
    IN IF g.panic THEN Ret(s, NilResp, FALSE, g.calls, TRUE)
       ELSE IF g.err THEN Ret(s, NilResp, TRUE, g.calls, FALSE)
       ELSE Ret([s EXCEPT !.SheetId = g.sheet.Id, !.SheetName = g.sheet.Name,
                          !.WorkspaceId = g.sheet.Workspace.Id,
                          !.WorkspaceName = g.sheet.Workspace.Name,
                          !.ColumnsById = IndexBy(g.sheet.Columns, ById),
                          !.ColumnsByName = IndexBy(g.sheet.Columns, ByName),
                          !.ColumnsByIndex = IndexBy(g.sheet.Columns, ByIndex),
                          !.Rows = g.sheet.Rows,
                          !.NewRows = << >>, !.UpdateRows = << >>],
                NilResp, FALSE, g.calls, FALSE)

\* the assignments of Load after a successful fetch
SetSheet(s, sheet) ==
    LET ById(c) == c.Id
        ByName(c) == c.Title
        ByIndex(c) == c.Index
    IN [s EXCEPT !.SheetId = sheet.Id, !.SheetName = sheet.Name,
                 !.WorkspaceId = sheet.Workspace.Id,
                 !.WorkspaceName = sheet.Workspace.Name,
                 !.ColumnsById = IndexBy(sheet.Columns, ById),
                 !.ColumnsByName = IndexBy(sheet.Columns, ByName),
                 !.ColumnsByIndex = IndexBy(sheet.Columns, ByIndex),
                 !.Rows = sheet.Rows]

\* variant: a successful fetch translates the queued new rows again, by column name
LoadRunResolving(s, sheetId, options, net) ==
    LET names == IF options.nil THEN << >> ELSE options.ColumnNames
        res == ColumnIdsOf(s.ColumnsByName, names)
        opts == IF options.nil THEN MkOptions(<< >>, << >>)
                ELSE IF Len(names) > 0 THEN [options EXCEPT !.ColumnIds = res.ids]
                ELSE options
        g == GetSheet(sheetId, opts, net)
        set == SetSheet(s, g.sheet)
    IN
    IF ~res.found THEN Ret(s, NilResp, TRUE, << >>, FALSE)
    ELSE IF g.panic THEN Ret(s, NilResp, FALSE, g.calls, TRUE)
    ELSE IF g.err THEN Ret(s, NilResp, TRUE, g.calls, FALSE)
    ELSE Ret([set EXCEPT !.NewRows =
                     [i \in 1..Len(@) |->
                         [@[i] EXCEPT !.Cells = ResolveCells(set.ColumnsByName, @, 1).cells]]],
             NilResp, FALSE, g.calls, FALSE)

\* SheetInfo.Load(sheetId, options)
LoadRun(s, sheetId, options, net) ==
    LET names == IF options.nil THEN << >> ELSE options.ColumnNames
        res == ColumnIdsOf(s.ColumnsByName, names)
        opts == IF options.nil THEN MkOptions(<< >>, << >>)
                ELSE IF Len(names) > 0 THEN [options EXCEPT !.ColumnIds = res.ids]
                ELSE options
        g == GetSheet(sheetId, opts, net)
    IN
    IF ~res.found THEN Ret(s, NilResp, TRUE, << >>, FALSE)
    ELSE IF g.panic THEN Ret(s, NilResp, FALSE, g.calls, TRUE)
    ELSE IF g.err THEN Ret(s, NilResp, TRUE, g.calls, FALSE)
    ELSE Ret(SetSheet(s, g.sheet), NilResp, FALSE, g.calls, FALSE)

----------------------------------------------------------------------------
(* Store, Restore, MatchSheet *)

\* no file at the path
NoFile == [exists |-> FALSE]

\* a row as JSON: id, cells, locked; a cell as JSON has no ColName
EncodeRow(r) == [id |-> r.Id, cells |-> EncodeCells(r.Cells), locked |-> r.Locked]
EncodeRows(rows) == [i \in 1..Len(rows) |-> EncodeRow(rows[i])]

\* a map with integer keys as a JSON object: the keys are written in decimal.
\* A map without entries is here the nil map of new(SheetInfo), written null.
EncodeIntMap(m) ==
    [null |-> DOMAIN m = {},
     object |-> [k \in {FormatInt(i) : i \in DOMAIN m} |-> m[ParseInt(k)]]]

EncodeStrMap(m) == [null |-> DOMAIN m = {}, object |-> m]

\* json.MarshalIndent(she, "", "  ")
MarshalSheetInfo(s) ==
    [SheetId |-> s.SheetId, SheetName |-> s.SheetName,
     WorkspaceId |-> s.WorkspaceId, WorkspaceName |-> s.WorkspaceName,
     ColumnsById |-> EncodeIntMap(s.ColumnsById),
     ColumnsByName |-> EncodeStrMap(s.ColumnsByName),
     ColumnsByIndex |-> EncodeIntMap(s.ColumnsByIndex),
     Rows |-> EncodeRows(s.Rows),
     NewRows |-> EncodeRows(s.NewRows),
     UpdateRows |-> EncodeRows(s.UpdateRows)]

\* json.Unmarshal of a JSON object into a map: null sets the map to nil; else
\* the map the receiver holds is used again and keeps the entries it has.
DecodeIntMapInto(m, j) ==
    IF j.null THEN EmptyMap
    ELSE MapMerge(m, [i \in {ParseInt(k) : k \in DOMAIN j.object} |-> j.object[FormatInt(i)]])

DecodeStrMapInto(m, j) == IF j.null THEN EmptyMap ELSE MapMerge(m, j.object)

\* json.Unmarshal of a JSON array into []Cell: an element the receiver's
\* slice already holds is decoded in place, so a field the JSON does not
\* carry (ColName always, value when it is nil) keeps what it held.
DecodeCellsInto(cells, js) ==
    [i \in 1..Len(js) |->
        IF i <= Len(cells)
        THEN [ColName |-> cells[i].ColName, ColumnId |-> js[i].columnId,
              Value |-> IF js[i].value = NilVal THEN cells[i].Value ELSE js[i].value]
        ELSE DecodeCell(js[i])]

\* json.Unmarshal of a JSON array into []Row
DecodeRowsInto(rows, js) ==
    [i \in 1..Len(js) |->
        MkRow(js[i].id,
              DecodeCellsInto(IF i <= Len(rows) THEN rows[i].Cells ELSE << >>, js[i].cells),
              js[i].locked)]

\* json.Unmarshal(jsonData, she)
UnmarshalSheetInfo(s, j) ==
    [SheetId |-> j.SheetId, SheetName |-> j.SheetName,
     WorkspaceId |-> j.WorkspaceId, WorkspaceName |-> j.WorkspaceName,
     ColumnsById |-> DecodeIntMapInto(s.ColumnsById, j.ColumnsById),
     ColumnsByName |-> DecodeStrMapInto(s.ColumnsByName, j.ColumnsByName),
     ColumnsByIndex |-> DecodeIntMapInto(s.ColumnsByIndex, j.ColumnsByIndex),
     Rows |-> DecodeRowsInto(s.Rows, j.Rows),
     NewRows |-> DecodeRowsInto(s.NewRows, j.NewRows),
     UpdateRows |-> DecodeRowsInto(s.UpdateRows, j.UpdateRows)]

\* SheetInfo.Store(filePath): the file after the call and whether an error
\* is returned; written tells whether ioutil.WriteFile can write the file
StoreRun(s, f, written) ==
    IF written THEN [file |-> [exists |-> TRUE, data |-> MarshalSheetInfo(s), from |-> s],
                     err |-> FALSE]
    ELSE [file |-> f, err |-> TRUE]

\* SheetInfo.Restore(filePath): the receiver after the call and whether an
\* error is returned
RestoreRun(s, f) ==
    IF ~f.exists THEN [she |-> s, err |-> TRUE]
    ELSE [she |-> UnmarshalSheetInfo(s, f.data), err |-> FALSE]

\* variant: the three indices are compared without the column count
MatchSheetRunNoCount(s, b) ==
    /\ s.SheetId = b.SheetId
    /\ s.SheetName = b.SheetName
    /\ \A id \in DOMAIN b.ColumnsById :
          /\ id \in DOMAIN s.ColumnsById
          /\ s.ColumnsById[id].Title = b.ColumnsById[id].Title
          /\ s.ColumnsById[id].Type = b.ColumnsById[id].Type

\* variant: the candidate may have more columns than the reference
MatchSheetRunAtLeast(s, b) ==
    IF s.SheetId # b.SheetId THEN FALSE
    ELSE IF s.SheetName # b.SheetName THEN FALSE
    ELSE IF Cardinality(DOMAIN s.ColumnsById) < Cardinality(DOMAIN b.ColumnsById) THEN FALSE
    ELSE \A baseColId \in DOMAIN b.ColumnsById :
            /\ baseColId \in DOMAIN s.ColumnsById
            /\ s.ColumnsById[baseColId].Title = b.ColumnsById[baseColId].Title
            /\ s.ColumnsById[baseColId].Type = b.ColumnsById[baseColId].Type

\* SheetInfo.MatchSheet(base)
MatchSheetRun(s, b) ==
    IF s.SheetId # b.SheetId THEN FALSE
    ELSE IF s.SheetName # b.SheetName THEN FALSE
    ELSE IF Cardinality(DOMAIN s.ColumnsById) # Cardinality(DOMAIN b.ColumnsById) THEN FALSE
    ELSE \A baseColId \in DOMAIN b.ColumnsById :
            /\ baseColId \in DOMAIN s.ColumnsById
            /\ s.ColumnsById[baseColId].Title = b.ColumnsById[baseColId].Title
            /\ s.ColumnsById[baseColId].Type = b.ColumnsById[baseColId].Type

----------------------------------------------------------------------------
(* State *)

\* she:      the SheetInfo aggregate
\* last:     the last operation: its name and arguments, the aggregate before
\*           it, what it returned and the network calls it issued, in order
\* attempts: new (upd) is the number of create (update) calls the rows now in
\*           the new-row (update-row) queue have been part of, counted up to
\*           two; twice records that some row has been part of two calls
\* panicked: a run-time panic has ended the program
\* base:     a second aggregate, the stored version a sheet is compared with
\* file:     what the file at the path of Store and Restore holds

Done(op, args, r) ==
    [op |-> op, args |-> args, before |-> she, err |-> r.err, resp |-> r.resp, calls |-> r.calls]

\* the count of the oldest queued row after one more call, and after the
\* handler has left the queue as it is in `queue'
CountSent(count, before, calls) ==
    IF Len(before) > 0 /\ Len(calls) > 0 THEN (IF count = 0 THEN 1 ELSE 2) ELSE count

CountLeft(count, queue) == IF Len(queue) = 0 THEN 0 ELSE count

Init ==
    /\ she = NewSheetInfo
    /\ last = [op |-> "new", args |-> << >>, before |-> NewSheetInfo, err |-> FALSE,
               resp |-> NilResp, calls |-> << >>]
    /\ attempts = [new |-> 0, upd |-> 0, twice |-> FALSE]
    /\ panicked = FALSE
    /\ base = NewSheetInfo
    /\ file = NoFile

Load(sheetId, options, net) ==
    /\ ~panicked
    /\ LET r == LoadRun(she, sheetId, options, net)
       IN /\ she' = r.she
          /\ last' = Done("Load", [sheetId |-> sheetId, options |-> options], r)
          /\ panicked' = r.panic
    /\ UNCHANGED <<attempts, base, file>>

AddRow(newRow) ==
    /\ ~panicked
    /\ LET r == AddRowRun(she, newRow)
       IN /\ she' = r.she
          /\ last' = Done("AddRow", [row |-> newRow], Ret(r.she, NilResp, r.err, << >>, FALSE))
    /\ UNCHANGED <<attempts, panicked, base, file>>

UpdateRow(updtRow) ==
    /\ ~panicked
    /\ LET r == UpdateRowRun(she, updtRow)
       IN /\ she' = r.she
          /\ last' = Done("UpdateRow", [row |-> updtRow], Ret(r.she, NilResp, r.err, << >>, FALSE))
    /\ UNCHANGED <<attempts, panicked, base, file>>

UploadNewRows(location, rowLevelField, net) ==
    /\ ~panicked
    /\ LET r == UploadNewRowsRun(she, location, rowLevelField, net)
           sent == CountSent(attempts.new, she.NewRows, r.calls)
       IN /\ she' = r.she
          /\ last' = Done("UploadNewRows",
                          [location |-> location, rowLevelField |-> rowLevelField], r)
          /\ attempts' = [attempts EXCEPT !.new = CountLeft(sent, r.she.NewRows),
                                          !.twice = @ \/ sent = 2]
          /\ panicked' = r.panic
    /\ UNCHANGED <<base, file>>

UploadUpdateRows(location, net) ==
    /\ ~panicked
    /\ LET r == UploadUpdateRowsRun(she, location, net)
           sent == CountSent(attempts.upd, she.UpdateRows, r.calls)
       IN /\ she' = r.she
          /\ last' = Done("UploadUpdateRows", [location |-> location], r)
          /\ attempts' = [attempts EXCEPT !.upd = CountLeft(sent, r.she.UpdateRows),
                                          !.twice = @ \/ sent = 2]
          /\ panicked' = r.panic
    /\ UNCHANGED <<base, file>>

\* she.Store(path)
Store(written) ==
    /\ ~panicked
    /\ LET r == StoreRun(she, file, written)
       IN /\ file' = r.file
          /\ last' = Done("Store", [written |-> written], Ret(she, NilResp, r.err, << >>, FALSE))
    /\ UNCHANGED <<she, attempts, panicked, base>>

\* she.Restore(path)
Restore ==
    /\ ~panicked
    /\ LET r == RestoreRun(she, file)
       IN /\ she' = r.she
          /\ last' = Done("Restore", [file |-> file], Ret(r.she, NilResp, r.err, << >>, FALSE))
    /\ UNCHANGED <<attempts, panicked, base, file>>

\* base.Restore(path); last.before is the receiver before the call
RestoreBase ==
    /\ ~panicked
    /\ LET r == RestoreRun(base, file)
       IN /\ base' = r.she
          /\ last' = [Done("RestoreBase", [file |-> file], Ret(r.she, NilResp, r.err, << >>, FALSE))
                         EXCEPT !.before = base]
    /\ UNCHANGED <<she, attempts, panicked, file>>

\* she.MatchSheet(base); last.matched is the result
MatchSheet ==
    /\ ~panicked
    /\ last' = [op |-> "MatchSheet", args |-> [base |-> base], before |-> she, err |-> FALSE,
                resp |-> NilResp, calls |-> << >>, matched |-> MatchSheetRun(she, base)]
    /\ UNCHANGED <<she, attempts, panicked, base, file>>

----------------------------------------------------------------------------
(* Inputs *)

\* rows handed to AddRow
ParentRow == MkRow(0, << MkCell("Address", StrVal("a")), MkCell("Level", StrVal("0")) >>, "nil")
ChildRow == MkRow(0, << MkCell("Address", StrVal("a")), MkCell("Level", StrVal("1")) >>, "nil")
OtherRow == MkRow(0, << MkCell("Address", StrVal("a")), MkCell("Level", StrVal("2")) >>, "nil")
PlainRow == MkRow(0, << MkCell("Address", StrVal("a")) >>, "true")
BadRow == MkRow(0, << MkCell("Address", StrVal("a")), MkCell("Bogus", StrVal("x")) >>, "nil")

NewRowInputs == {ParentRow, ChildRow, PlainRow, BadRow}
LinkRowInputs == {ParentRow, ChildRow, OtherRow, PlainRow}

\* rows handed to UpdateRow
UpdateRowInputs ==
    { MkRow(101, << MkCell("Address", StrVal("b")) >>, "nil"),
      MkRow(102, << >>, "false"),
      MkRow(101, << MkCell("Address", StrVal("b")), MkCell("Bogus", StrVal("x")) >>, "true") }

\* placement directives handed to the uploads
Locations ==
    { NilLocation, ZeroLocation,
      MkLocation(0, 0, TRUE, TRUE, FALSE, 0, 0),
      MkLocation(7, 0, FALSE, FALSE, FALSE, 0, 0),
      MkLocation(0, 8, FALSE, FALSE, TRUE, 2, 0) }

\* the optional rowLevelField argument
LevelFields == { << >>, << "Level" >>, << "Bogus" >> }

\* outcomes of the successive network calls of one handler
NetSeqs(n) == [1..n -> Outcomes]

\* the most network calls UploadNewRows can issue for a queue of n rows: the
\* create call and, with a level column, one flush for every two rows
MaxCalls(rowLevelField, n) == IF Len(rowLevelField) = 0 THEN 1 ELSE 1 + n \div 2

----------------------------------------------------------------------------
(* Spec: a new aggregate; Load, both enqueues and both uploads, the uploads
   without a placement directive *)

Next ==
    \/ \E net \in NetSeqs(1) : Load(1, NilOptions, net)
    \/ \E r \in NewRowInputs : Len(she.NewRows) < MaxNew /\ AddRow(r)
    \/ \E r \in UpdateRowInputs : Len(she.UpdateRows) < MaxUpd /\ UpdateRow(r)
    \/ \E f \in {<< >>, << "Level" >>} :
          \E net \in NetSeqs(MaxCalls(f, Len(she.NewRows))) :
              UploadNewRows(NilLocation, f, net)
    \/ \E net \in NetSeqs(1) : UploadUpdateRows(NilLocation, net)

Spec == Init /\ [][Next]_vars

----------------------------------------------------------------------------
(* SpecNew: an aggregate on which sheet A has been loaded; AddRow and
   UploadNewRows with every placement directive and level column *)

InitLoaded ==
    /\ she = LoadRun(NewSheetInfo, 1, NilOptions, << "ok" >>).she
    /\ last = [op |-> "new", args |-> << >>, before |-> NewSheetInfo, err |-> FALSE,
               resp |-> NilResp, calls |-> << >>]
    /\ attempts = [new |-> 0, upd |-> 0, twice |-> FALSE]
    /\ panicked = FALSE
    /\ base = NewSheetInfo
    /\ file = NoFile

NextNew ==
    \/ \E r \in NewRowInputs : Len(she.NewRows) < MaxNew /\ AddRow(r)
    \/ \E loc \in Locations, f \in LevelFields :
          \E net \in NetSeqs(MaxCalls(f, Len(she.NewRows))) :
              UploadNewRows(loc, f, net)

SpecNew == InitLoaded /\ [][NextNew]_vars

----------------------------------------------------------------------------
(* SpecLink: an aggregate on which sheet A has been loaded; rows with a level
   marker are queued and uploaded with the level column "Level"; the create
   call succeeds and every set-parent call succeeds or fails *)

LinkNets(n) == {net \in [1..n -> {"ok", "status", "neterr"}] : net[1] = "ok"}

NextLink ==
    \/ \E r \in LinkRowInputs : Len(she.NewRows) < MaxLink /\ AddRow(r)
    \/ \E net \in LinkNets(MaxCalls(<< "Level" >>, Len(she.NewRows))) :
          UploadNewRows(NilLocation, << "Level" >>, net)

SpecLink == InitLoaded /\ [][NextLink]_vars

----------------------------------------------------------------------------
(* SpecPlace: an aggregate on which sheet A has been loaded; both enqueues
   and both uploads, the uploads with every placement directive *)

\* the rows queued in both queues together
QueuedRows == Len(she.NewRows) + Len(she.UpdateRows)

PlaceRowInputs == {ParentRow, PlainRow}
PlaceUpdateInputs == {r \in UpdateRowInputs : Len(r.Cells) < 2}

\* the create or update call succeeds or is answered with a status other than 200
PlaceNets == {<< "ok" >>, << "status" >>}

NextPlace ==
    \/ \E r \in PlaceRowInputs : QueuedRows < MaxBatch /\ AddRow(r)
    \/ \E r \in PlaceUpdateInputs : QueuedRows < MaxBatch /\ UpdateRow(r)
    \/ \E loc \in Locations, net \in PlaceNets : UploadNewRows(loc, << >>, net)
    \/ \E loc \in Locations, net \in PlaceNets : UploadUpdateRows(loc, net)

SpecPlace == InitLoaded /\ [][NextPlace]_vars

----------------------------------------------------------------------------
(* SpecLoad: a new aggregate; Load of the sheets the provider holds and of
   one it does not hold, with and without options, and both enqueues *)

\* sheet ids handed to Load; the provider holds no sheet 3
LoadSheetIds == {1, 2, 3}

\* options handed to Load
LoadOptions ==
    { NilOptions, NoRows,
      MkOptions(<< >>, << "Level", "Address" >>),
      MkOptions(<< >>, << "Address" >>),
      MkOptions(<< 101 >>, << "Address", "Bogus" >>) }

LoadUpdateRow == MkRow(101, << MkCell("Address", StrVal("b")) >>, "nil")

NextLoad ==
    \/ \E id \in LoadSheetIds, o \in LoadOptions, net \in NetSeqs(1) : Load(id, o, net)
    \/ QueuedRows < MaxBatch /\ AddRow(PlainRow)
    \/ QueuedRows < MaxBatch /\ UpdateRow(LoadUpdateRow)

SpecLoad == Init /\ [][NextLoad]_vars

----------------------------------------------------------------------------
(* SpecStore: a new aggregate and a new base; the sheets are loaded, rows
   queued, the aggregate stored, and it or the base restored and compared *)

NextStore ==
    \/ \E id \in {1, 2} : Load(id, NilOptions, << "ok" >>)
    \/ QueuedRows < MaxBatch /\ AddRow(PlainRow)
    \/ QueuedRows < MaxBatch /\ UpdateRow(LoadUpdateRow)
    \/ \E written \in BOOLEAN : Store(written)
    \/ Restore
    \/ RestoreBase
    \/ MatchSheet

SpecStore == Init /\ [][NextStore]_vars

----------------------------------------------------------------------------
(* SpecMatch: MatchSheet applied to every pair of aggregates that were
   loaded from sheet A as it is, from sheet A as it was before a change of
   its name, workspace, rows or columns, or from sheet B *)

MatchSheets ==
    { SheetA, SheetB,
      [SheetA EXCEPT !.Name = "A2"],
      [SheetA EXCEPT !.Workspace.Id = 8, !.Workspace.Name = "V", !.Rows = << >>],
      [SheetA EXCEPT !.Columns[2].Title = "Lvl"],
      [SheetA EXCEPT !.Columns[2].Type = "PICKLIST"],
      [SheetA EXCEPT !.Columns[2].Id = 13],
      [SheetA EXCEPT !.Columns[2].Index = 5, !.Columns[2].Primary = TRUE],
      [SheetA EXCEPT !.Columns = << @[1] >>],
      [SheetA EXCEPT !.Columns = Append(@, MkColumn(13, 2, "Status", "PICKLIST", FALSE))] }

MatchInputs ==
    {NewSheetInfo}
    \cup {SetSheet(NewSheetInfo, sh) : sh \in MatchSheets}
    \cup {[SetSheet(NewSheetInfo, SheetA) EXCEPT !.NewRows = << ParentRow >>,
                                                 !.UpdateRows = << LoadUpdateRow >>]}

InitMatch ==
    /\ she \in MatchInputs
    /\ base \in MatchInputs
    /\ last = [op |-> "new", args |-> << >>, before |-> NewSheetInfo, err |-> FALSE,
               resp |-> NilResp, calls |-> << >>]
    /\ attempts = [new |-> 0, upd |-> 0, twice |-> FALSE]
    /\ panicked = FALSE
    /\ file = NoFile

NextMatch == MatchSheet

SpecMatch == InitMatch /\ [][NextMatch]_vars

----------------------------------------------------------------------------
(* Vocabulary of the claims *)

\* the last operation was an UploadNewRows that returned
UploadedNew == last.op = "UploadNewRows" /\ ~panicked

\* the rows that were queued when the last operation began
QueuedNew == last.before.NewRows
QueuedUpd == last.before.UpdateRows

\* the value the caller gave the row in the column titled `title', "" if none
ValueIn(row, title) ==
    IF \E i \in 1..Len(row.Cells) : row.Cells[i].ColName = title
    THEN (CHOOSE c \in SeqRange(row.Cells) : c.ColName = title).Value.v
    ELSE ""

\* the level markers of the queued rows, as the caller wrote them
Markers == [i \in 1..Len(QueuedNew) |-> ValueIn(QueuedNew[i], "Level")]

\* the ids the provider gave the rows of the create call
CreatedId(i) == CreateBody(last.calls[1].items, "ok").rows[i].Id

\* the k-th smallest element of a set of numbers
Nth(S, k) == CHOOSE x \in S : Cardinality({y \in S : y < x}) = k - 1

\* the set-parent calls of the last operation, in the order issued
SetParentCalls == SeqFilter(last.calls, LAMBDA c : c.kind = "setparent")

\* the rows that are parents, and the children that directly follow a parent
Parents == {i \in 1..Len(Markers) : Markers[i] = "0"}
ChildrenOf(p) == {j \in (p + 1)..Len(Markers) : \A k \in (p + 1)..j : Markers[k] = "1"}
Groups == {p \in Parents : ChildrenOf(p) # {}}

\* call c links exactly the children of parent row p, in row order
LinksGroup(c, p) ==
    /\ c.kind = "setparent"
    /\ c.sheetId = she.SheetId
    /\ Len(c.items) = Cardinality(ChildrenOf(p))
    /\ \A m \in 1..Len(c.items) :
          /\ c.items[m].parentId = CreatedId(p)
          /\ c.items[m].id = CreatedId(Nth(ChildrenOf(p), m))

AllCallsOk == \A k \in 1..Len(last.calls) : last.calls[k].outcome = "ok"

----------------------------------------------------------------------------
(* Claims about the parent-linking pass, checked under SpecLink *)

\* C1: UploadNewRows with a level column on a queue of more than one row whose
\* markers are all "0" or "1", when the create call and every set-parent call
\* succeed: the create call is the first and only create call, and after it
\* exactly one set-parent call is issued for each parent row directly followed
\* by at least one child row, in row order, carrying that parent's created id
\* and the created ids of exactly those children in row order; for the
\* markers 0,1,1,0,1 these are the calls (row 1; rows 2,3) and (row 4; row 5).
C1_OneFlushPerGroup ==
    (/\ UploadedNew
     /\ Len(last.args.rowLevelField) = 1
     /\ Len(QueuedNew) > 1
     /\ \A i \in 1..Len(Markers) : Markers[i] \in {"0", "1"}
     /\ AllCallsOk)
    => /\ Len(last.calls) = 1 + Cardinality(Groups)
       /\ last.calls[1].kind = "create"
       /\ \A k \in 1..Cardinality(Groups) : LinksGroup(last.calls[k + 1], Nth(Groups, k))
       /\ ~last.err
       /\ Markers = << "0", "1", "1", "0", "1" >> =>
             /\ Len(last.calls) = 3
             /\ last.calls[2].items = << [id |-> CreatedId(2), parentId |-> CreatedId(1)],
                                         [id |-> CreatedId(3), parentId |-> CreatedId(1)] >>
             /\ last.calls[3].items = << [id |-> CreatedId(5), parentId |-> CreatedId(4)] >>

\* the markers 0,1,1,0,1 have been uploaded and linked by two set-parent calls
C1_Witness ==
    /\ UploadedNew
    /\ Len(last.args.rowLevelField) = 1
    /\ Markers = << "0", "1", "1", "0", "1" >>
    /\ AllCallsOk
    /\ Len(SetParentCalls) = 2

\* C2: if a set-parent call of the linking pass fails, no further set-parent
\* call is issued and UploadNewRows returns a non-nil error together with the
\* created-row result.
C2_FlushFailureReturnsError ==
    (/\ UploadedNew
     /\ \E k \in 1..Len(last.calls) :
           last.calls[k].kind = "setparent" /\ last.calls[k].outcome # "ok")
    => /\ last.calls[Len(last.calls)].outcome # "ok"
       /\ \A k \in 1..(Len(last.calls) - 1) : last.calls[k].outcome = "ok"
       /\ last.err
       /\ ~last.resp.nil
       /\ Len(last.resp.Result) = Len(QueuedNew)

\* C9: a child-marker row that comes before the first parent-marker row is in
\* no set-parent call, neither as child nor as parent, and an error is
\* returned only when a call has failed.
C9_OrphanChildDropped ==
    (last.op = "UploadNewRows" /\ Len(last.calls) > 0)
    => /\ \A i \in 1..Len(Markers) :
             (Markers[i] = "1" /\ \A j \in 1..(i - 1) : Markers[j] # "0")
             => \A k \in 1..Len(SetParentCalls) :
                   \A m \in 1..Len(SetParentCalls[k].items) :
                      /\ SetParentCalls[k].items[m].id # CreatedId(i)
                      /\ SetParentCalls[k].items[m].parentId # CreatedId(i)
       /\ last.err => ~AllCallsOk

\* a queue that begins with a child row, followed by a parent and its child,
\* has been uploaded and one set-parent call issued
C9_Witness ==
    /\ UploadedNew
    /\ Len(Markers) >= 3
    /\ Markers[1] = "1" /\ Markers[2] = "0" /\ Markers[3] = "1"
    /\ Len(SetParentCalls) >= 1
    /\ ~last.err

----------------------------------------------------------------------------
(* Claims about UploadNewRows, checked under SpecNew *)

\* the create calls among the calls of the last operation
CreateCalls == SeqFilter(last.calls, LAMBDA c : c.kind = "create")

\* C3: after UploadNewRows returns the new-row queue is empty, whatever the
\* outcome (success, failed create call, undecodable response, unknown level
\* column, failed set-parent call).
C3_NewQueueAlwaysCleared == UploadedNew => Len(she.NewRows) = 0

\* C5: UploadNewRows with N >= 1 queued rows issues exactly one create call,
\* as its first call and also when that call fails, whose items are the N
\* queued rows in queue order; with no row queued it issues no call and
\* returns no error.
C5_OneCreateCallInOrder ==
    last.op = "UploadNewRows" =>
       /\ Len(QueuedNew) = 0 => (Len(last.calls) = 0 /\ ~last.err /\ ~panicked)
       /\ Len(QueuedNew) >= 1 =>
             /\ Len(CreateCalls) = 1
             /\ last.calls[1].kind = "create"
             /\ last.calls[1].sheetId = last.before.SheetId
             /\ Len(last.calls[1].items) = Len(QueuedNew)
             /\ \A i \in 1..Len(QueuedNew) :
                   /\ "cells" \in DOMAIN last.calls[1].items[i]
                   /\ Len(last.calls[1].items[i]["cells"]) = Len(QueuedNew[i].Cells)
                   /\ \A j \in 1..Len(QueuedNew[i].Cells) :
                         /\ last.calls[1].items[i]["cells"][j].columnId = QueuedNew[i].Cells[j].ColumnId
                         /\ last.calls[1].items[i]["cells"][j].value = QueuedNew[i].Cells[j].Value
                   /\ ("locked" \in DOMAIN last.calls[1].items[i]) = (QueuedNew[i].Locked # "nil")

\* two different rows have been uploaded in one create call that failed
C5_Witness ==
    /\ last.op = "UploadNewRows"
    /\ Len(QueuedNew) = 2
    /\ QueuedNew[1] # QueuedNew[2]
    /\ last.calls[1].outcome = "status"
    /\ last.err

----------------------------------------------------------------------------
(* Claims about the enqueues and both uploads, checked under Spec *)

\* C4: every enqueued row is part of at most one create (update) call; a
\* failed upload never leaves rows queued for a later upload to send again.
C4_AtMostOneAttempt == ~attempts.twice

\* the row the last enqueue was given has a cell whose title is unknown
UnknownTitle ==
    \E j \in 1..Len(last.args.row.Cells) :
       \A title \in DOMAIN last.before.ColumnsByName : title # last.args.row.Cells[j].ColName

\* the queue the last enqueue targets, before and after
TargetBefore == IF last.op = "AddRow" THEN last.before.NewRows ELSE last.before.UpdateRows
TargetAfter == IF last.op = "AddRow" THEN she.NewRows ELSE she.UpdateRows

\* C6: AddRow and UpdateRow return an error and leave the target queue
\* unchanged if a cell's title is not in the column directory; otherwise they
\* return no error and append exactly one row to the end of the target queue,
\* each cell carrying the directory's column id for its title.
C6_EnqueueAllOrNothing ==
    last.op \in {"AddRow", "UpdateRow"} =>
       /\ UnknownTitle => (last.err /\ TargetAfter = TargetBefore)
       /\ ~UnknownTitle =>
             /\ ~last.err
             /\ Len(TargetAfter) = Len(TargetBefore) + 1
             /\ SubSeq(TargetAfter, 1, Len(TargetBefore)) = TargetBefore
             /\ LET row == TargetAfter[Len(TargetAfter)]
                IN /\ row.Id = last.args.row.Id
                   /\ row.Locked = last.args.row.Locked
                   /\ Len(row.Cells) = Len(last.args.row.Cells)
                   /\ \A j \in 1..Len(row.Cells) :
                         /\ row.Cells[j].ColName = last.args.row.Cells[j].ColName
                         /\ row.Cells[j].Value = last.args.row.Cells[j].Value
                         /\ row.Cells[j].ColumnId = last.before.ColumnsByName[row.Cells[j].ColName].Id

\* a row whose first title is known and whose second is not has been refused
\* while a row was queued
C6_Witness ==
    /\ last.op = "AddRow"
    /\ last.err
    /\ Len(last.args.row.Cells) = 2
    /\ last.args.row.Cells[1].ColName \in DOMAIN last.before.ColumnsByName
    /\ Len(she.NewRows) = 1

\* C7: after UploadUpdateRows returns the update-row queue is empty, whether
\* the update call succeeded, failed in transport or returned an undecodable
\* response.
C7_UpdateQueueAlwaysCleared ==
    (last.op = "UploadUpdateRows" /\ ~panicked) => Len(she.UpdateRows) = 0

----------------------------------------------------------------------------
(* Claims about placement, checked under SpecPlace *)

\* the last operation was an upload that issued its create or update call
UploadedBatch ==
    /\ last.op \in {"UploadNewRows", "UploadUpdateRows"}
    /\ Len(last.calls) > 0

\* the items of that call
BatchItems == last.calls[1].items

\* the placement fields of an item
PlacementOf(item) == [k \in DOMAIN item \cap LocationKeys |-> item[k]]

\* field k of the directive is set: a true flag, a non-zero id or count
ActiveIn(location, k) ==
    \/ k = "toTop" /\ location.ToTop
    \/ k = "toBottom" /\ location.ToBottom
    \/ k = "parentId" /\ location.ParentId # 0
    \/ k = "siblingId" /\ location.SiblingId # 0
    \/ k = "above" /\ location.AboveSibling
    \/ k = "indent" /\ location.Indent # 0
    \/ k = "outdent" /\ location.Outdent # 0

\* C11: when no placement directive is given, every item of the create batch
\* carries toBottom = true and no other placement field; no item of the
\* update batch carries a placement field, and the update call is issued and
\* completes without error when the provider answers it with success.
C11_NilLocationDefaults ==
    (UploadedBatch /\ last.args.location.nil) =>
       /\ last.op = "UploadNewRows" =>
             \A i \in 1..Len(BatchItems) : PlacementOf(BatchItems[i]) = ("toBottom" :> TRUE)
       /\ last.op = "UploadUpdateRows" =>
             /\ Len(BatchItems) = Len(QueuedUpd)
             /\ \A i \in 1..Len(BatchItems) : DOMAIN PlacementOf(BatchItems[i]) = {}
             /\ last.calls[1].outcome = "ok" => (~last.err /\ ~last.resp.nil)

\* two rows have been updated in one call without a placement directive
C11_Witness ==
    /\ last.op = "UploadUpdateRows"
    /\ last.args.location.nil
    /\ Len(QueuedUpd) = 2
    /\ last.calls[1].outcome = "ok"
    /\ ~last.err

\* C12: every item of one create or update batch carries the same placement
\* fields; with a directive, a placement field is in an item only if it is
\* set in the directive; a directive that sets both toTop and toBottom is
\* sent as it is, both fields in every item, and the upload fails only if the
\* call does.
C12_SamePlacementInEveryItem ==
    UploadedBatch =>
       /\ \A i, j \in 1..Len(BatchItems) : PlacementOf(BatchItems[i]) = PlacementOf(BatchItems[j])
       /\ ~last.args.location.nil =>
             \A i \in 1..Len(BatchItems) :
                \A k \in DOMAIN PlacementOf(BatchItems[i]) : ActiveIn(last.args.location, k)
       /\ (~last.args.location.nil /\ last.args.location.ToTop /\ last.args.location.ToBottom) =>
             /\ \A i \in 1..Len(BatchItems) :
                   /\ {"toTop", "toBottom"} \subseteq DOMAIN BatchItems[i]
                   /\ BatchItems[i]["toTop"] = TRUE
                   /\ BatchItems[i]["toBottom"] = TRUE
             /\ last.err => last.calls[1].outcome # "ok"

\* two new rows have been uploaded with a directive that sets toTop and toBottom
C12_Witness ==
    /\ last.op = "UploadNewRows"
    /\ ~last.args.location.nil
    /\ last.args.location.ToTop /\ last.args.location.ToBottom
    /\ Len(last.calls) = 1
    /\ Len(BatchItems) = 2
    /\ ~last.err

----------------------------------------------------------------------------
(* Claims about Load, checked under SpecLoad *)

\* the column names the last Load was asked for
RequestedNames ==
    IF last.args.options.nil THEN << >> ELSE last.args.options.ColumnNames

\* the last operation was a Load that fetched the sheet with success
Loaded ==
    /\ last.op = "Load"
    /\ ~panicked
    /\ ~last.err
    /\ Len(last.calls) = 1

\* the sheet the provider sent in answer to the fetch of the last Load
Fetched ==
    SheetBody(last.calls[1].sheetId, last.calls[1].items.rowIds,
              last.calls[1].items.columnIds, "ok").sheet

\* C13: if the sheet fetch of Load fails (network error, status other than
\* 200, undecodable response), Load returns an error and the aggregate is as
\* it was before the call.
C13_FailedFetchLeavesAggregate ==
    (/\ last.op = "Load"
     /\ Len(last.calls) = 1
     /\ last.calls[1].outcome # "ok")
    => /\ ~panicked
       /\ last.err
       /\ she = last.before

\* C14: Load with column names issues the sheet fetch only if every name is
\* in the by-title index, and then passes the ids of the named columns in the
\* order of the names; if a name is absent, as every name is on an aggregate
\* never loaded, Load returns an error, issues no call and leaves the
\* aggregate unchanged.
C14_NamesResolvedBeforeFetch ==
    (last.op = "Load" /\ Len(RequestedNames) > 0) =>
       LET known == \A i \in 1..Len(RequestedNames) :
                       \E title \in DOMAIN last.before.ColumnsByName : title = RequestedNames[i]
       IN /\ known =>
                /\ Len(last.calls) = 1
                /\ last.calls[1].kind = "getsheet"
                /\ last.calls[1].sheetId = last.args.sheetId
                /\ Len(last.calls[1].items.columnIds) = Len(RequestedNames)
                /\ \A i \in 1..Len(RequestedNames) :
                      last.calls[1].items.columnIds[i]
                         = last.before.ColumnsByName[RequestedNames[i]].Id
          /\ ~known =>
                /\ last.err
                /\ ~panicked
                /\ Len(last.calls) = 0
                /\ she = last.before
          /\ last.before.SheetId = 0 => ~known

\* the columns "Level" and "Address" of sheet A have been fetched by name
C14_Witness ==
    /\ Loaded
    /\ RequestedNames = << "Level", "Address" >>
    /\ last.calls[1].items.columnIds = << 12, 11 >>

\* C15: a successful Load replaces the sheet and workspace identity, the
\* three column indices and the loaded rows with the fetched values and
\* leaves both queues as they were.
C15_LoadReplacesAllButQueues ==
    Loaded =>
       /\ she.SheetId = Fetched.Id
       /\ she.SheetName = Fetched.Name
       /\ she.WorkspaceId = Fetched.Workspace.Id
       /\ she.WorkspaceName = Fetched.Workspace.Name
       /\ she.Rows = Fetched.Rows
       /\ DOMAIN she.ColumnsById = {Fetched.Columns[i].Id : i \in 1..Len(Fetched.Columns)}
       /\ DOMAIN she.ColumnsByName = {Fetched.Columns[i].Title : i \in 1..Len(Fetched.Columns)}
       /\ DOMAIN she.ColumnsByIndex = {Fetched.Columns[i].Index : i \in 1..Len(Fetched.Columns)}
       /\ she.NewRows = last.before.NewRows
       /\ she.UpdateRows = last.before.UpdateRows

\* sheet A has been loaded over sheet B while a row waited in each queue
C15_Witness ==
    /\ Loaded
    /\ last.before.SheetId = 2
    /\ she.SheetId = 1
    /\ Len(she.Rows) = 1
    /\ Len(she.NewRows) = 1
    /\ Len(she.UpdateRows) = 1

\* C16: after every successful Load the three indices hold exactly the
\* fetched columns: as many entries each as columns fetched, every column
\* stored unchanged under its id, its title and its position, and no column
\* of an earlier load left.
C16_IndicesHoldFetchedColumns ==
    Loaded =>
       /\ Cardinality(DOMAIN she.ColumnsById) = Len(Fetched.Columns)
       /\ Cardinality(DOMAIN she.ColumnsByName) = Len(Fetched.Columns)
       /\ Cardinality(DOMAIN she.ColumnsByIndex) = Len(Fetched.Columns)
       /\ \A i \in 1..Len(Fetched.Columns) :
             /\ Fetched.Columns[i].Id \in DOMAIN she.ColumnsById
             /\ she.ColumnsById[Fetched.Columns[i].Id] = Fetched.Columns[i]
             /\ Fetched.Columns[i].Title \in DOMAIN she.ColumnsByName
             /\ she.ColumnsByName[Fetched.Columns[i].Title] = Fetched.Columns[i]
             /\ Fetched.Columns[i].Index \in DOMAIN she.ColumnsByIndex
             /\ she.ColumnsByIndex[Fetched.Columns[i].Index] = Fetched.Columns[i]

\* sheet B has been loaded on an aggregate that held the columns of sheet A
C16_Witness ==
    /\ Loaded
    /\ DOMAIN last.before.ColumnsById = {11, 12}
    /\ she.SheetId = 2
    /\ Len(Fetched.Columns) = 2

----------------------------------------------------------------------------
(* Claims about Store and Restore, checked under SpecStore *)

\* the aggregate whose Store wrote the file the last Restore read
Stored == last.args.file.from

\* C17: Store followed by Restore on a new aggregate gives it the sheet id,
\* sheet name, three column indices, loaded rows and both queues of the
\* stored aggregate, and MatchSheet of the two is true.
C17_StoreRestoreRoundTrip ==
    (/\ last.op = "RestoreBase"
     /\ ~last.err
     /\ last.before = NewSheetInfo)
    => /\ base.SheetId = Stored.SheetId
       /\ base.SheetName = Stored.SheetName
       /\ base.ColumnsById = Stored.ColumnsById
       /\ base.ColumnsByName = Stored.ColumnsByName
       /\ base.ColumnsByIndex = Stored.ColumnsByIndex
       /\ base.Rows = Stored.Rows
       /\ base.NewRows = Stored.NewRows
       /\ base.UpdateRows = Stored.UpdateRows
       /\ MatchSheetRun(Stored, base)

\* C18: after Restore on an aggregate that had been loaded with a different
\* sheet, the three column indices hold exactly the stored columns and none
\* of the columns held before.
C18_RestoreReplacesColumns ==
    (/\ last.op = "Restore"
     /\ ~last.err
     /\ last.before.SheetId # 0
     /\ last.before.SheetId # Stored.SheetId)
    => /\ she.ColumnsById = Stored.ColumnsById
       /\ she.ColumnsByName = Stored.ColumnsByName
       /\ she.ColumnsByIndex = Stored.ColumnsByIndex

----------------------------------------------------------------------------
(* Claims about MatchSheet, checked under SpecMatch *)

\* C19: MatchSheet issues no call and changes neither aggregate, and returns
\* true exactly when candidate and reference have the same sheet id, the same
\* sheet name, as many columns in the by-id index, and every column id of the
\* reference is in the candidate with the same title and type; so rows,
\* queues, workspace and column position or primary flag do not count, and
\* an aggregate matches itself.
C19_MatchSheetComparesIdNameColumns ==
    last.op = "MatchSheet" =>
       LET x == last.before
           b == last.args.base
           ids(s) == DOMAIN s.ColumnsById
       IN /\ last.matched =
                (/\ x.SheetId = b.SheetId
                 /\ x.SheetName = b.SheetName
                 /\ Cardinality(ids(x)) = Cardinality(ids(b))
                 /\ ids(b) \subseteq ids(x)
                 /\ \A id \in ids(b) \cap ids(x) :
                       /\ x.ColumnsById[id].Title = b.ColumnsById[id].Title
                       /\ x.ColumnsById[id].Type = b.ColumnsById[id].Type)
          /\ Len(last.calls) = 0
          /\ she = x
          /\ base = b
          /\ x = b => last.matched

\* an aggregate has been found to match one whose columns are indexed by
\* other positions
C19_Witness ==
    /\ last.op = "MatchSheet"
    /\ last.matched
    /\ last.before # last.args.base
    /\ last.before.ColumnsByIndex # last.args.base.ColumnsByIndex

----------------------------------------------------------------------------
(* Claims about the transport, checked under Spec *)

\* C20: every failed network call, a failure in transport or a status other
\* than 200, is returned by DoRequest to the calling operation as an error
\* and never ends the program with a panic.
C20_FailedCallNeverPanics ==
    (\E k \in 1..Len(last.calls) : last.calls[k].outcome \in {"neterr", "status"})
    => ~panicked

\* C21: every network call is followed by the delay RequestDelay before
\* DoRequest returns, whether the call succeeded or failed.
C21_DelayAfterEveryCall ==
    ~panicked => \A k \in 1..Len(last.calls) : last.calls[k].slept

----------------------------------------------------------------------------
(* Further claims about the enqueues and the uploads, checked under Spec *)

\* C22: AddRow and UpdateRow issue no network call and change nothing but
\* their own queue: sheet and workspace identity, the three column indices,
\* the loaded rows and the other queue are as before, with or without error.
C22_EnqueueChangesOwnQueueOnly ==
    last.op \in {"AddRow", "UpdateRow"} =>
       /\ Len(last.calls) = 0
       /\ ~panicked
       /\ she.SheetId = last.before.SheetId
       /\ she.SheetName = last.before.SheetName
       /\ she.WorkspaceId = last.before.WorkspaceId
       /\ she.WorkspaceName = last.before.WorkspaceName
       /\ she.ColumnsById = last.before.ColumnsById
       /\ she.ColumnsByName = last.before.ColumnsByName
       /\ she.ColumnsByIndex = last.before.ColumnsByIndex
       /\ she.Rows = last.before.Rows
       /\ last.op = "AddRow" => she.UpdateRows = last.before.UpdateRows
       /\ last.op = "UpdateRow" => she.NewRows = last.before.NewRows

\* a row has been queued for update on a loaded aggregate while a new row waited
C22_Witness ==
    /\ last.op = "UpdateRow"
    /\ ~last.err
    /\ last.before.SheetId = 1
    /\ Len(last.before.NewRows) = 1
    /\ Len(she.UpdateRows) = Len(last.before.UpdateRows) + 1

\* C23: each item of the update batch carries the row id as its decimal
\* string, cells only if the queued row has at least one cell, and locked only
\* if the row's lock flag was set; nothing else but placement fields.
C23_UpdateItemFields ==
    (UploadedBatch /\ last.op = "UploadUpdateRows") =>
       /\ Len(BatchItems) = Len(QueuedUpd)
       /\ \A i \in 1..Len(BatchItems) :
             LET item == BatchItems[i]
                 row == QueuedUpd[i]
             IN /\ item["id"] = FormatInt(row.Id)
                /\ ("cells" \in DOMAIN item) <=> (Len(row.Cells) > 0)
                /\ "cells" \in DOMAIN item =>
                      /\ Len(item["cells"]) = Len(row.Cells)
                      /\ \A c \in 1..Len(row.Cells) :
                            /\ item["cells"][c].columnId = row.Cells[c].ColumnId
                            /\ item["cells"][c].value = row.Cells[c].Value
                /\ ("locked" \in DOMAIN item) <=> (row.Locked # "nil")
                /\ "locked" \in DOMAIN item => item["locked"] = (row.Locked = "true")
                /\ DOMAIN item \subseteq {"id", "cells", "locked"} \cup LocationKeys

\* a row with no cells and its lock flag set to false has been sent as an item
\* holding just id and locked, after a row with a cell and no lock flag
C23_Witness ==
    /\ UploadedBatch
    /\ last.op = "UploadUpdateRows"
    /\ Len(BatchItems) = 2
    /\ DOMAIN BatchItems[1] = {"id", "cells"}
    /\ BatchItems[1]["id"] = "101"
    /\ DOMAIN BatchItems[2] = {"id", "locked"}
    /\ BatchItems[2]["id"] = "102"
    /\ BatchItems[2]["locked"] = FALSE

----------------------------------------------------------------------------
(* SpecReload: a new aggregate on which sheet A or sheet B is loaded, again
   and again, between enqueues and uploads of new rows *)

ReloadSheetIds == {1, 2}

NextReload ==
    \/ \E id \in ReloadSheetIds, net \in PlaceNets : Load(id, NilOptions, net)
    \/ \E r \in PlaceRowInputs : Len(she.NewRows) < MaxBatch /\ AddRow(r)
    \/ \E net \in PlaceNets : UploadNewRows(NilLocation, << >>, net)

SpecReload == Init /\ [][NextReload]_vars

\* C24: Load neither translates again nor discards queued rows: a row keeps
\* the column ids of the sheet loaded when it was enqueued, a later successful
\* Load leaves both queues as they are, and the next UploadNewRows sends the
\* queued rows unchanged in one create call addressed to the sheet id the
\* aggregate holds at upload time.
C24_QueuedRowsSurviveLoad ==
    /\ (last.op = "AddRow" /\ ~last.err) =>
          LET row == she.NewRows[Len(she.NewRows)]
          IN \A c \in 1..Len(row.Cells) :
                row.Cells[c].ColumnId = last.before.ColumnsByName[row.Cells[c].ColName].Id
    /\ last.op = "Load" =>
          /\ she.NewRows = last.before.NewRows
          /\ she.UpdateRows = last.before.UpdateRows
    /\ (last.op = "UploadNewRows" /\ Len(QueuedNew) > 0 /\ ~panicked) =>
          /\ Len(last.calls) = 1
          /\ last.calls[1].kind = "create"
          /\ last.calls[1].sheetId = last.before.SheetId
          /\ Len(BatchItems) = Len(QueuedNew)
          /\ \A i \in 1..Len(QueuedNew) :
                /\ Len(BatchItems[i]["cells"]) = Len(QueuedNew[i].Cells)
                /\ \A c \in 1..Len(QueuedNew[i].Cells) :
                      /\ BatchItems[i]["cells"][c].columnId = QueuedNew[i].Cells[c].ColumnId
                      /\ BatchItems[i]["cells"][c].value = QueuedNew[i].Cells[c].Value

\* a row enqueued while sheet A was loaded has been sent to sheet B, loaded
\* since, with the Address column id of sheet A
C24_Witness ==
    /\ last.op = "UploadNewRows"
    /\ last.before.SheetId = 2
    /\ last.before.ColumnsByName["Address"].Id = 21
    /\ Len(last.calls) = 1
    /\ last.calls[1].sheetId = 2
    /\ last.calls[1].outcome = "ok"
    /\ Len(BatchItems) = 1
    /\ BatchItems[1]["cells"][1].columnId = 11
    /\ ~last.err

----------------------------------------------------------------------------
(* SpecLevel: an aggregate on which sheet A has been loaded; rows whose level
   cell holds "0", "1", another string, a number, or is missing are queued and
   uploaded with the level column "Level"; every call succeeds *)

MaxLevelRows == 3

\* a row whose level the caller wrote as a number
NumberRow == MkRow(0, << MkCell("Address", StrVal("a")), MkCell("Level", NumVal) >>, "nil")

LevelRowInputs == {ParentRow, ChildRow, OtherRow, PlainRow, NumberRow}

LevelNets(n) == [1..n -> {"ok"}]

NextLevel ==
    \/ \E r \in LevelRowInputs : Len(she.NewRows) < MaxLevelRows /\ AddRow(r)
    \/ \E net \in LevelNets(MaxCalls(<< "Level" >>, Len(she.NewRows))) :
          UploadNewRows(NilLocation, << "Level" >>, net)

SpecLevel == InitLoaded /\ [][NextLevel]_vars

\* the value of the level cell of the i-th queued row, nil if it has none
LevelOf(i) ==
    IF \E c \in 1..Len(QueuedNew[i].Cells) : QueuedNew[i].Cells[c].ColName = "Level"
    THEN (CHOOSE c \in SeqRange(QueuedNew[i].Cells) : c.ColName = "Level").Value
    ELSE NilVal

\* the last row before row j whose level is "0", 0 if none
LastParent(j) ==
    IF \E p \in 1..(j - 1) : LevelOf(p) = StrVal("0")
    THEN CHOOSE p \in 1..(j - 1) :
            /\ LevelOf(p) = StrVal("0")
            /\ \A q \in (p + 1)..(j - 1) : LevelOf(q) # StrVal("0")
    ELSE 0

\* the items of all set-parent calls of the last operation
LinkItems ==
    UNION {SeqRange(last.calls[k].items) :
              k \in {k \in 1..Len(last.calls) : last.calls[k].kind = "setparent"}}

\* the linking pass of the last operation ran over more than one created row
LinkedWithLevel ==
    /\ last.op = "UploadNewRows"
    /\ last.args.rowLevelField = << "Level" >>
    /\ Len(QueuedNew) > 1
    /\ Len(last.calls) > 0
    /\ AllCallsOk

\* C25: in the linking pass a created row whose level value is neither "0"
\* nor "1", or that has no level cell, is skipped without ending the group:
\* the pass completes, the row is in no set-parent call, and every child row
\* is linked to the last parent row before it.
C25_OtherLevelSkipped ==
    LinkedWithLevel =>
       /\ ~panicked
       /\ \A i \in 1..Len(QueuedNew) :
             LevelOf(i) \notin {StrVal("0"), StrVal("1")} =>
                \A it \in LinkItems : it.id # CreatedId(i) /\ it.parentId # CreatedId(i)
       /\ \A j \in 1..Len(QueuedNew) :
             (LevelOf(j) = StrVal("1") /\ LastParent(j) # 0) =>
                [id |-> CreatedId(j), parentId |-> CreatedId(LastParent(j))] \in LinkItems

----------------------------------------------------------------------------
(* Claims about the level column name, checked under SpecNew *)

\* UploadNewRows was called on more than one queued row with a level column
\* name that is not in the column directory
UnknownLevelColumn ==
    /\ last.op = "UploadNewRows"
    /\ Len(last.args.rowLevelField) = 1
    /\ last.args.rowLevelField[1] \notin DOMAIN last.before.ColumnsByName
    /\ Len(QueuedNew) > 1

\* C26: the level column name is checked only after the create call: with
\* more than one queued row and a level column name that is not in the column
\* directory, the one create call is still issued with every queued row and no
\* set-parent call follows; when the create call succeeds an error is returned
\* together with the created-row result, and the new-row queue is empty.
C26_LevelNameCheckedAfterCreate ==
    UnknownLevelColumn =>
       /\ Len(last.calls) = 1
       /\ last.calls[1].kind = "create"
       /\ Len(last.calls[1].items) = Len(QueuedNew)
       /\ last.calls[1].outcome = "ok" =>
             /\ ~panicked
             /\ last.err
             /\ ~last.resp.nil
             /\ Len(last.resp.Result) = Len(QueuedNew)
             /\ \A i \in 1..Len(QueuedNew) : last.resp.Result[i].Id = CreatedId(i)
             /\ she.NewRows = << >>

\* two rows have been created and the unknown level column "Bogus" reported
C26_Witness ==
    /\ UnknownLevelColumn
    /\ last.args.rowLevelField = << "Bogus" >>
    /\ Len(QueuedNew) = 2
    /\ last.calls[1].outcome = "ok"
    /\ last.err
    /\ Len(last.resp.Result) = 2
    /\ she.NewRows = << >>

----------------------------------------------------------------------------
(* SpecAlias: an aggregate on which sheet A has been loaded; the caller keeps
   the row values it passed to AddRow and UpdateRow and writes to their cells
   between the enqueues and the uploads *)

\* The caller assigns to Cells[c].Value of the row value it passed as the i-th
\* row of the queue.  AddRow and UpdateRow append the Row struct they were
\* given: its Cells slice header is copied, the cells themselves are not, so
\* the queued row and the caller's row share one array of cells.
CallerWrites(queue, i, c, val) ==
    /\ ~panicked
    /\ i \in 1..Len(she[queue])
    /\ c \in 1..Len(she[queue][i].Cells)
    /\ she' = [she EXCEPT ![queue][i].Cells[c].Value = val]
    /\ last' = [op |-> "CallerWrites", args |-> [queue |-> queue, row |-> i, cell |-> c, value |-> val],
                before |-> she, err |-> FALSE, resp |-> NilResp, calls |-> << >>]
    /\ UNCHANGED <<attempts, panicked, base, file>>

\* the value the caller writes
CallerValues == {StrVal("z")}

NextAlias ==
    \/ \E r \in PlaceRowInputs : QueuedRows < MaxBatch /\ AddRow(r)
    \/ QueuedRows < MaxBatch /\ UpdateRow(LoadUpdateRow)
    \/ \E queue \in {"NewRows", "UpdateRows"}, i \in 1..MaxBatch, c \in 1..2, val \in CallerValues :
          CallerWrites(queue, i, c, val)
    \/ \E net \in PlaceNets : UploadNewRows(NilLocation, << >>, net)
    \/ \E net \in PlaceNets : UploadUpdateRows(NilLocation, net)

SpecAlias == InitLoaded /\ [][NextAlias]_vars

\* C27: a queued row is independent of the caller's row value: after AddRow
\* or UpdateRow has returned, a change the caller makes to the cells of the
\* row value it passed in changes no queued row.
C27_QueuedRowIndependentOfCaller ==
    last.op = "CallerWrites" =>
       /\ she.NewRows = last.before.NewRows
       /\ she.UpdateRows = last.before.UpdateRows

----------------------------------------------------------------------------
(* Claims about uploads of an empty queue, checked under Spec *)

\* C28: UploadUpdateRows called with an empty update-row queue still issues
\* exactly one update call, with an empty batch as payload; UploadNewRows
\* called with an empty new-row queue issues no call and returns no error.
C28_EmptyUpdateQueueStillCalls ==
    /\ (last.op = "UploadUpdateRows" /\ Len(QueuedUpd) = 0) =>
          /\ Len(last.calls) = 1
          /\ last.calls[1].kind = "update"
          /\ last.calls[1].sheetId = last.before.SheetId
          /\ last.calls[1].items = << >>
    /\ (last.op = "UploadNewRows" /\ Len(QueuedNew) = 0) =>
          /\ Len(last.calls) = 0
          /\ ~last.err
          /\ last.resp.nil
          /\ ~panicked

\* an empty batch has been sent to the loaded sheet and answered with success
C28_Witness ==
    /\ last.op = "UploadUpdateRows"
    /\ Len(QueuedUpd) = 0
    /\ last.before.SheetId = 1
    /\ Len(last.calls) = 1
    /\ last.calls[1].items = << >>
    /\ last.calls[1].outcome = "ok"
    /\ ~last.err

----------------------------------------------------------------------------
(* SpecStatus: an aggregate on which sheet A has been loaded; every call is
   answered, with status 200, 201, 204 or 404 *)

StatusNets == {<< o >> : o \in {"ok", "created", "nocontent", "status"}}

NextStatus ==
    \/ \E net \in StatusNets : Load(1, NilOptions, net)
    \/ QueuedRows < MaxBatch /\ AddRow(PlainRow)
    \/ QueuedRows < MaxBatch /\ UpdateRow(LoadUpdateRow)
    \/ \E net \in StatusNets : UploadNewRows(NilLocation, << >>, net)
    \/ \E net \in StatusNets : UploadUpdateRows(NilLocation, net)

SpecStatus == InitLoaded /\ [][NextStatus]_vars

\* C29: DoRequest treats a response as success only when its status is
\* exactly 200: a call answered with any other status, 201 and 204 included,
\* comes back to the handler as an error, which returns it with no response
\* object; a call answered with 200 and a well-formed body returns no error.
C29_OnlyStatus200IsSuccess ==
    (last.op \in {"Load", "UploadNewRows", "UploadUpdateRows"} /\ Len(last.calls) = 1) =>
       /\ ~panicked
       /\ StatusCode(last.calls[1].outcome) # StatusOK =>
             /\ last.err
             /\ last.resp.nil
       /\ last.calls[1].outcome = "ok" => ~last.err

\* a create call answered with status 201 has been returned as an error
C29_Witness ==
    /\ last.op = "UploadNewRows"
    /\ Len(last.calls) = 1
    /\ last.calls[1].kind = "create"
    /\ StatusCode(last.calls[1].outcome) = 201
    /\ last.err
    /\ last.resp.nil

----------------------------------------------------------------------------
(* Further claims about MatchSheet, checked under SpecMatch *)

\* C30: MatchSheet is symmetric: she.MatchSheet(base) returns what
\* base.MatchSheet(she) returns, for all aggregates she and base.
C30_MatchSheetSymmetric ==
    last.op = "MatchSheet" =>
       last.matched = MatchSheetRun(last.args.base, last.before)

\* two aggregates with the same sheet id, name and column count, each holding
\* a column id the other lacks, have been found not to match
C30_Witness ==
    /\ last.op = "MatchSheet"
    /\ ~last.matched
    /\ last.before.SheetId = last.args.base.SheetId
    /\ last.before.SheetName = last.args.base.SheetName
    /\ Cardinality(DOMAIN last.before.ColumnsById) = Cardinality(DOMAIN last.args.base.ColumnsById)
    /\ DOMAIN last.before.ColumnsById \ DOMAIN last.args.base.ColumnsById # {}
    /\ DOMAIN last.args.base.ColumnsById \ DOMAIN last.before.ColumnsById # {}

====
